---- MODULE Spec2Model ----
(***************************************************************************)
(* Financial ledger API (src/index.js): the Express handlers of            *)
(* POST /accounts, /deposits, /withdrawals, /transfers and                 *)
(* GET /accounts/:id, /accounts/:id/ledger over a PostgreSQL store with    *)
(* the tables accounts, transactions and ledger_entries.                   *)
(*                                                                         *)
(* Every `await client.query(...)` of a handler is one step of that        *)
(* handler, so the handlers of concurrent requests interleave between      *)
(* statements.  The store runs each handler's statements in one            *)
(* transaction at PostgreSQL's default READ COMMITTED isolation (README,   *)
(* "ACID Properties and Isolation"; the handlers issue a plain BEGIN and   *)
(* take no row lock): a statement sees the committed rows plus the rows    *)
(* its own transaction has written, and nothing another open transaction   *)
(* has written.                                                            *)
(*                                                                         *)
(* Money: a request amount is given in thousandths (mills) of the          *)
(* currency unit, a stored amount (numeric(14,2)) in hundredths (cents).   *)
(***************************************************************************)
EXTENDS Integers, FiniteSets, Sequences, TLC

\* ------------------------------------------------------------------ bounds
MaxTx == 2           \* values the transactions id sequence may hand out

\* handlers of money-moving requests that may be in flight at once
Clients == {1, 2}
\* ids the accounts table may hand out, and the ids requests name
AccountIds == {1, 2}
\* request amounts of the concurrent specification, in mills: 0.01
ReqAmounts == {10}
Currencies == {"INR"}
NULL == 0

VARIABLES
  accounts,        \* committed rows of table accounts
  transactions,    \* committed rows of table transactions
  ledger_entries,  \* committed rows of table ledger_entries
  nextTxId,        \* SERIAL sequence of transactions.id
  nextEntryId,     \* SERIAL sequence of ledger_entries.id
  pc,              \* per handler: the statement it awaits
  req,             \* per handler: req.body
  txn,             \* per handler: state of its store transaction
  pendTx,          \* per handler: transactions rows written, not committed
  pendEntries,     \* per handler: ledger_entries rows written, not committed
  transactionId,   \* per handler: const transactionId
  newBalance,      \* per handler: const newBalance
  res,             \* per handler: HTTP status sent (0: none yet)
  released,        \* per handler: calls of client.release()
  err,             \* per handler: kind of the error its catch block caught
  readRes          \* response a GET handler sends in this step (NoRead: none)

vars == <<accounts, transactions, ledger_entries, nextTxId, nextEntryId, pc, req,
          txn, pendTx, pendEntries, transactionId, newBalance, res, released,
          err, readRes>>

store == <<accounts, transactions, ledger_entries>>

\* ------------------------------------------------------- pure functions

\* PostgreSQL numeric(14,2) on insert of a positive decimal: round half away
\* from zero to two fractional digits (mills -> cents).
Numeric14_2(mills) == (mills + 5) \div 10

RECURSIVE SumSigned(_)
SumSigned(rows) ==
  IF rows = {} THEN 0
  ELSE LET e == CHOOSE x \in rows : TRUE
           v == CASE e.entry_type = "credit" -> e.amount
                  [] e.entry_type = "debit" -> 0 - e.amount
                  [] OTHER -> 0
       IN v + SumSigned(rows \ {e})

\* Variant: the aggregate without its WHERE account_id = $1.
BalanceQueryAllAccounts(rows, accountId) == SumSigned(rows)

\* SELECT COALESCE(SUM(CASE ... END), 0) FROM ledger_entries WHERE account_id = $1
\* evaluated over the rows `rows` the statement sees.
BalanceQuery(rows, accountId) ==
  SumSigned({e \in rows : e.account_id = accountId})

\* Variant: a statement that does not see its own transaction's writes.
VisibleEntriesCommittedOnly(c) == ledger_entries

\* Rows of ledger_entries a statement of handler c's transaction sees under
\* READ COMMITTED: the committed rows and the transaction's own writes.
VisibleEntries(c) == ledger_entries \cup pendEntries[c]

\* Variant: dirty reads, the rows open transactions have written included.
DirtyEntries == ledger_entries \cup UNION {pendEntries[c] : c \in Clients}

\* Rows a pool.query statement (its own autocommit transaction) sees.
CommittedEntries == ledger_entries

\* Variant: the account SELECT without its WHERE id = $1.
AccountExistsAny(id) == accounts # {}

AccountExists(id) == \E a \in accounts : a.id = id

\* ---------------------------------------------------------------- requests
Requests ==
  [op : {"deposit"}, src : {NULL}, dst : AccountIds,
   amount : ReqAmounts, currency : Currencies]
  \cup
  [op : {"withdrawal"}, src : AccountIds, dst : {NULL},
   amount : ReqAmounts, currency : Currencies]
  \cup
  [op : {"transfer"}, src : AccountIds, dst : AccountIds,
   amount : ReqAmounts, currency : Currencies]

NoReq == [op |-> "none", src |-> NULL, dst |-> NULL, amount |-> 0, currency |-> ""]
NoRead == [op |-> "none"]
NoErr == "none"

\* Kinds of error a statement may throw: the store aborted the transaction
\* (deadlock, serialization failure, lock or statement timeout), or the store
\* could not be reached.
ErrorKinds == {"conflict", "unavailable"}

\* ----------------------------------------------------------- request bodies
\* A field of req.body is a JSON string, modelled as its sequence of
\* characters: the digits 0 .. 9 stand for themselves, Dot, Minus and Letter
\* for ".", "-" and any other character.  <<>> is a field that is missing or
\* empty.
Dot == 10
Minus == 11
Letter == 12

\* The result of parseInt / parseFloat on text with no leading number.
NaN == 0 - 999999

IsDigit(ch) == ch \in 0 .. 9

\* The longest prefix of s made of digits.
RECURSIVE DigitsPrefix(_)
DigitsPrefix(s) ==
  IF s = <<>> \/ ~IsDigit(Head(s)) THEN <<>>
  ELSE <<Head(s)>> \o DigitsPrefix(Tail(s))

RECURSIVE DecimalValue(_)
DecimalValue(digits) ==
  IF digits = <<>> THEN 0
  ELSE 10 * DecimalValue(SubSeq(digits, 1, Len(digits) - 1)) + digits[Len(digits)]

Unsigned(s) == IF s # <<>> /\ Head(s) = Minus THEN Tail(s) ELSE s
Sign(s) == IF s # <<>> /\ Head(s) = Minus THEN 0 - 1 ELSE 1

\* parseInt(s, 10): an optional sign and the longest run of digits after it;
\* whatever follows the digits is ignored; NaN when there is no digit.
ParseInt(s) ==
  LET d == DigitsPrefix(Unsigned(s))
  IN IF d = <<>> THEN NaN ELSE Sign(s) * DecimalValue(d)

\* parseFloat(s), in mills: an optional sign, digits, and an optional "."
\* with digits; whatever follows is ignored; NaN when there is no digit.
\* Fractional digits after the third are outside the bodies drawn.
ParseFloat(s) ==
  LET u == Unsigned(s)
      i == DigitsPrefix(u)
      rest == SubSeq(u, Len(i) + 1, Len(u))
      f == IF rest # <<>> /\ Head(rest) = Dot
             THEN DigitsPrefix(Tail(rest)) ELSE <<>>
      f3 == SubSeq(f \o <<0, 0, 0>>, 1, 3)
  IN IF i = <<>> /\ f = <<>> THEN NaN
     ELSE Sign(s) * (1000 * DecimalValue(i) + DecimalValue(f3))

\* The values the handler works with after its parseInt / parseFloat calls;
\* a missing field stays falsy.  `raw` keeps the body as received.
ParseBody(b) ==
  [op |-> b.op,
   src |-> IF b.src = <<>> THEN NULL ELSE ParseInt(b.src),
   dst |-> IF b.dst = <<>> THEN NULL ELSE ParseInt(b.dst),
   amount |-> IF b.amount = <<>> THEN 0 ELSE ParseFloat(b.amount),
   currency |-> b.currency,
   raw |-> b]

\* "1. Basic validation" of a handler: TRUE when no 400 is returned.
ValidRequest(r) ==
  CASE r.op = "transfer" ->
         /\ r.src # NULL /\ r.dst # NULL /\ r.amount # 0 /\ r.currency # ""
         /\ r.src # NaN /\ r.dst # NaN /\ r.amount # NaN
         /\ r.amount > 0
         /\ r.src # r.dst
    [] r.op = "deposit" ->
         /\ r.dst # NULL /\ r.amount # 0 /\ r.currency # ""
         /\ r.dst # NaN /\ r.amount # NaN
         /\ r.amount > 0
    [] r.op = "withdrawal" ->
         /\ r.src # NULL /\ r.amount # 0 /\ r.currency # ""
         /\ r.src # NaN /\ r.amount # NaN
         /\ r.amount > 0
    [] OTHER -> FALSE

\* ---------------------------------------------------------------- Init
Init ==
  /\ accounts = {}
  /\ transactions = {}
  /\ ledger_entries = {}
  /\ nextTxId = 1
  /\ nextEntryId = 1
  /\ pc = [c \in Clients |-> "idle"]
  /\ req = [c \in Clients |-> NoReq]
  /\ txn = [c \in Clients |-> "none"]
  /\ pendTx = [c \in Clients |-> {}]
  /\ pendEntries = [c \in Clients |-> {}]
  /\ transactionId = [c \in Clients |-> 0]
  /\ newBalance = [c \in Clients |-> 0]
  /\ res = [c \in Clients |-> 0]
  /\ released = [c \in Clients |-> 0]
  /\ err = [c \in Clients |-> NoErr]
  /\ readRes = NoRead


\* --------------------------------------------------- POST /accounts
\* INSERT INTO accounts (user_id, type, currency) VALUES ... through pool.query
\* (one autocommit statement); id from the SERIAL sequence, status by default.
OpenAccount(currency) ==
  /\ Cardinality(accounts) < Cardinality(AccountIds)
  /\ accounts' = accounts \cup
       {[id |-> Cardinality(accounts) + 1, currency |-> currency, status |-> "active"]}
  /\ UNCHANGED <<transactions, ledger_entries, nextTxId, nextEntryId, pc, req, txn,
                 pendTx, pendEntries, transactionId, newBalance, res, released>>
  /\ UNCHANGED err
  /\ readRes' = NoRead

\* --------------------------------- POST /transfers, /deposits, /withdrawals
\* Statements a handler may be awaiting when the store throws.
AwaitingQuery ==
  {"begin", "check", "notfound", "insertTx", "insertEntries", "balance",
   "insufficient", "update", "commit"}

\* A request arrives on a handler that is not serving one; it awaits
\* pool.connect(), which hands it a connection with no open transaction.
Request(c, r) ==
  /\ pc[c] \in {"idle", "done"}
  /\ pc' = [pc EXCEPT ![c] = "connect"]
  /\ req' = [req EXCEPT ![c] = r]
  /\ txn' = [txn EXCEPT ![c] = "none"]
  /\ pendTx' = [pendTx EXCEPT ![c] = {}]
  /\ pendEntries' = [pendEntries EXCEPT ![c] = {}]
  /\ transactionId' = [transactionId EXCEPT ![c] = 0]
  /\ res' = [res EXCEPT ![c] = 0]
  /\ released' = [released EXCEPT ![c] = 0]
  /\ err' = [err EXCEPT ![c] = NoErr]
  /\ UNCHANGED <<store, nextTxId, nextEntryId, newBalance>>
  /\ readRes' = NoRead

\* Sends the response and, in `finally`, releases the client; the handler
\* returns and its locals (err included) are gone.  A 201 body carries
\* transactionId.
Respond(c, status) ==
  /\ pc' = [pc EXCEPT ![c] = "done"]
  /\ res' = [res EXCEPT ![c] = status]
  /\ released' = [released EXCEPT ![c] = @ + 1]
  /\ req' = [req EXCEPT ![c] = NoReq]
  /\ newBalance' = [newBalance EXCEPT ![c] = 0]
  /\ transactionId' = [transactionId EXCEPT ![c] = IF status = 201 THEN @ ELSE 0]
  /\ err' = [err EXCEPT ![c] = NoErr]

\* `await pool.connect()` rejects.  The call is the first statement of the
\* handler, before its try block, so the handler's promise rejects and no
\* catch or finally of the handler runs.  What happens next is the
\* framework's doing: Express 4 ignores the promise and no response is ever
\* sent; Express 5 passes the rejection to its error handler, which answers
\* 500.  No client was acquired, so none is released.
ConnectFails(c) ==
  /\ pc[c] = "connect"
  /\ pc' = [pc EXCEPT ![c] = "done"]
  /\ \E handled \in BOOLEAN :
       res' = [res EXCEPT ![c] = IF handled THEN 500 ELSE 0]
  /\ req' = [req EXCEPT ![c] = NoReq]
  /\ UNCHANGED <<store, nextTxId, nextEntryId, txn, pendTx, pendEntries,
                 transactionId, newBalance, released, err>>
  /\ readRes' = NoRead

\* pool.connect() resolved: "1. Basic validation"; 400 or client.query('BEGIN').
Validate(c) ==
  /\ pc[c] = "connect"
  /\ IF ValidRequest(req[c])
       THEN /\ pc' = [pc EXCEPT ![c] = "begin"]
            /\ UNCHANGED <<res, released, req, newBalance, transactionId, err>>
       ELSE Respond(c, 400)
  /\ UNCHANGED <<store, nextTxId, nextEntryId, txn, pendTx, pendEntries>>
  /\ readRes' = NoRead

\* BEGIN completed; the handler sends the SELECT on accounts.
Begin(c) ==
  /\ pc[c] = "begin"
  /\ txn' = [txn EXCEPT ![c] = "open"]
  /\ pc' = [pc EXCEPT ![c] = "check"]
  /\ UNCHANGED <<store, nextTxId, nextEntryId, req, pendTx, pendEntries,
                 transactionId, newBalance, res, released>>
  /\ UNCHANGED err
  /\ readRes' = NoRead

\* rows.length of SELECT id FROM accounts WHERE id = ANY($1) / WHERE id = $1
AccountRows(r) ==
  CASE r.op = "transfer" -> Cardinality({a \in accounts : a.id \in {r.src, r.dst}})
    [] r.op = "deposit" -> Cardinality({a \in accounts : a.id = r.dst})
    [] OTHER -> Cardinality({a \in accounts : a.id = r.src})

\* Variant: the transfer handler with the single-account test
\* `rows.length === 0` of the other two handlers.
AccountsFoundAny(r) == AccountRows(r) # 0

\* Variant: no existence check at all.
AccountsFoundAlways(r) == TRUE

AccountsFound(r) ==
  IF r.op = "transfer" THEN AccountRows(r) = 2 ELSE AccountRows(r) # 0

\* "3. Check (both) account(s) exist": ROLLBACK is sent when a row is missing.
CheckAccounts(c) ==
  /\ pc[c] = "check"
  /\ pc' = [pc EXCEPT ![c] = IF AccountsFound(req[c]) THEN "insertTx" ELSE "notfound"]
  /\ UNCHANGED <<store, nextTxId, nextEntryId, req, txn, pendTx, pendEntries,
                 transactionId, newBalance, res, released>>
  /\ UNCHANGED err
  /\ readRes' = NoRead

\* Variant: the handler undoes its work with a compensating DELETE of the
\* accounts' ledger rows instead of ROLLBACK.
RollbackDeletes(c) ==
  /\ txn' = [txn EXCEPT ![c] = "rolledback"]
  /\ pendTx' = [pendTx EXCEPT ![c] = {}]
  /\ pendEntries' = [pendEntries EXCEPT ![c] = {}]
  /\ ledger_entries' =
       {e \in ledger_entries : e.account_id \notin {req[c].src, req[c].dst}}
  /\ UNCHANGED transactions

\* Variant: COMMIT sent where ROLLBACK was meant.
RollbackCommits(c) ==
  /\ txn' = [txn EXCEPT ![c] = IF @ = "open" THEN "committed" ELSE @]
  /\ transactions' = transactions \cup pendTx[c]
  /\ ledger_entries' = ledger_entries \cup pendEntries[c]
  /\ pendTx' = [pendTx EXCEPT ![c] = {}]
  /\ pendEntries' = [pendEntries EXCEPT ![c] = {}]

\* ROLLBACK of the store transaction of handler c: what it wrote is discarded
\* and the committed tables stay as they are.
Rollback(c) ==
  /\ txn' = [txn EXCEPT ![c] = IF @ = "open" THEN "rolledback" ELSE @]
  /\ pendTx' = [pendTx EXCEPT ![c] = {}]
  /\ pendEntries' = [pendEntries EXCEPT ![c] = {}]
  /\ UNCHANGED <<transactions, ledger_entries>>

\* ROLLBACK completed after a missing account: 404.
NotFound(c) ==
  /\ pc[c] = "notfound"
  /\ Rollback(c)
  /\ Respond(c, 404)
  /\ UNCHANGED <<accounts, nextTxId, nextEntryId>>
  /\ readRes' = NoRead

\* The row of INSERT INTO transactions (...) VALUES (type, $1, $2, src, dst,
\* 'pending', $5): amount is coerced to numeric(14,2).
TxRow(r, id) ==
  [id |-> id, type |-> r.op, amount |-> Numeric14_2(r.amount), currency |-> r.currency,
   source_account_id |-> r.src, destination_account_id |-> r.dst, status |-> "pending"]

\* "4. Insert transaction row (status pending)"; RETURNING id.
InsertTx(c) ==
  /\ pc[c] = "insertTx"
  /\ pendTx' = [pendTx EXCEPT ![c] = @ \cup {TxRow(req[c], nextTxId)}]
  /\ transactionId' = [transactionId EXCEPT ![c] = nextTxId]
  /\ nextTxId' = nextTxId + 1
  /\ pc' = [pc EXCEPT ![c] = "insertEntries"]
  /\ UNCHANGED <<store, nextEntryId, req, txn, pendEntries, newBalance, res,
                 released>>
  /\ UNCHANGED err
  /\ readRes' = NoRead

Entry(id, tid, acc, type, mills) ==
  [id |-> id, transaction_id |-> tid, account_id |-> acc, entry_type |-> type,
   amount |-> Numeric14_2(mills)]

\* Variant: the transfer's INSERT with its debit row only.
TransferEntriesDebitOnly(r, tid, eid) == {Entry(eid, tid, r.src, "debit", r.amount)}

\* Variant: the transfer's credit row written against the source account.
TransferEntriesCreditSource(r, tid, eid) ==
  {Entry(eid, tid, r.src, "debit", r.amount), Entry(eid + 1, tid, r.src, "credit", r.amount)}

\* insertLedgerQuery of /transfers: ($1, $2, 'debit', $3), ($1, $4, 'credit', $3)
TransferEntries(r, tid, eid) ==
  {Entry(eid, tid, r.src, "debit", r.amount), Entry(eid + 1, tid, r.dst, "credit", r.amount)}

\* Variant: the deposit's INSERT with the entry type of the withdrawal's.
DepositEntriesDebit(r, tid, eid) == {Entry(eid, tid, r.dst, "debit", r.amount)}

\* /deposits: VALUES ($1, $2, 'credit', $3)
DepositEntries(r, tid, eid) == {Entry(eid, tid, r.dst, "credit", r.amount)}

\* /withdrawals: VALUES ($1, $2, 'debit', $3)
WithdrawalEntries(r, tid, eid) == {Entry(eid, tid, r.src, "debit", r.amount)}

NewEntries(r, tid, eid) ==
  CASE r.op = "transfer" -> TransferEntries(r, tid, eid)
    [] r.op = "deposit" -> DepositEntries(r, tid, eid)
    [] OTHER -> WithdrawalEntries(r, tid, eid)

\* Variant: every handler goes from its entries straight to the status
\* update, as the deposit handler does.
InsertEntriesSkipsBalance(c) ==
  /\ pc[c] = "insertEntries"
  /\ LET rows == NewEntries(req[c], transactionId[c], nextEntryId) IN
       /\ pendEntries' = [pendEntries EXCEPT ![c] = @ \cup rows]
       /\ nextEntryId' = nextEntryId + Cardinality(rows)
  /\ pc' = [pc EXCEPT ![c] = "update"]
  /\ UNCHANGED <<store, nextTxId, req, txn, pendTx, transactionId, newBalance, res,
                 released>>
  /\ UNCHANGED err
  /\ readRes' = NoRead

\* "5. Insert ... ledger entries".  A deposit goes on to the status update, a
\* withdrawal or transfer to the balance query.
InsertEntries(c) ==
  /\ pc[c] = "insertEntries"
  /\ LET rows == NewEntries(req[c], transactionId[c], nextEntryId) IN
       /\ pendEntries' = [pendEntries EXCEPT ![c] = @ \cup rows]
       /\ nextEntryId' = nextEntryId + Cardinality(rows)
  /\ pc' = [pc EXCEPT ![c] = IF req[c].op = "deposit" THEN "update" ELSE "balance"]
  /\ UNCHANGED <<store, nextTxId, req, txn, pendTx, transactionId, newBalance, res,
                 released>>
  /\ UNCHANGED err
  /\ readRes' = NoRead

\* Variant: the balance query waits for the row locks of other open
\* transactions that have written entries on the handler's accounts (as it
\* would with entries inserted under exclusive account locks).
BalanceBlocks(c) ==
  /\ pc[c] = "balance"
  /\ \A d \in Clients \ {c} :
       \A e \in pendEntries[d] : e.account_id \notin {req[c].src, req[c].dst}
  /\ LET b == BalanceQuery(VisibleEntries(c), req[c].src) IN
       /\ newBalance' = [newBalance EXCEPT ![c] = b]
       /\ pc' = [pc EXCEPT ![c] = IF b < 0 THEN "insufficient" ELSE "update"]
  /\ UNCHANGED <<store, nextTxId, nextEntryId, req, txn, pendTx, pendEntries,
                 transactionId, res, released>>
  /\ UNCHANGED err
  /\ readRes' = NoRead

\* Variant: the insufficient-funds test written `newBalance <= 0`.
BalanceStrict(c) ==
  /\ pc[c] = "balance"
  /\ LET b == BalanceQuery(VisibleEntries(c), req[c].src) IN
       /\ newBalance' = [newBalance EXCEPT ![c] = b]
       /\ pc' = [pc EXCEPT ![c] = IF b <= 0 THEN "insufficient" ELSE "update"]
  /\ UNCHANGED <<store, nextTxId, nextEntryId, req, txn, pendTx, pendEntries,
                 transactionId, res, released>>
  /\ UNCHANGED err
  /\ readRes' = NoRead

\* "6. Recalculate (source) account balance" inside the handler's transaction;
\* newBalance < 0 sends ROLLBACK, otherwise the status UPDATE.
Balance(c) ==
  /\ pc[c] = "balance"
  /\ LET b == BalanceQuery(VisibleEntries(c), req[c].src) IN
       /\ newBalance' = [newBalance EXCEPT ![c] = b]
       /\ pc' = [pc EXCEPT ![c] = IF b < 0 THEN "insufficient" ELSE "update"]
  /\ UNCHANGED <<store, nextTxId, nextEntryId, req, txn, pendTx, pendEntries,
                 transactionId, res, released>>
  /\ UNCHANGED err
  /\ readRes' = NoRead

\* ROLLBACK completed after newBalance < 0: 422.
Insufficient(c) ==
  /\ pc[c] = "insufficient"
  /\ Rollback(c)
  /\ Respond(c, 422)
  /\ UNCHANGED <<accounts, nextTxId, nextEntryId>>
  /\ readRes' = NoRead

\* Variant: the status UPDATE matching no row.
SetCompletedNoRow(rows, id) == rows

\* UPDATE transactions SET status = 'completed' WHERE id = $1
SetCompleted(rows, id) ==
  {IF t.id = id THEN [t EXCEPT !.status = "completed"] ELSE t : t \in rows}

\* Variant: the handler answers 201 once the UPDATE has completed, without
\* sending COMMIT.
UpdateStatusAnswers(c) ==
  /\ pc[c] = "update"
  /\ pendTx' = [pendTx EXCEPT ![c] = SetCompleted(@, transactionId[c])]
  /\ Respond(c, 201)
  /\ UNCHANGED <<store, nextTxId, nextEntryId, txn, pendEntries>>
  /\ readRes' = NoRead

\* "Mark transaction as completed": the UPDATE completed; COMMIT is sent.
UpdateStatus(c) ==
  /\ pc[c] = "update"
  /\ pendTx' = [pendTx EXCEPT ![c] = SetCompleted(@, transactionId[c])]
  /\ pc' = [pc EXCEPT ![c] = "commit"]
  /\ UNCHANGED <<store, nextTxId, nextEntryId, req, txn, pendEntries, transactionId,
                 newBalance, res, released>>
  /\ UNCHANGED err
  /\ readRes' = NoRead

\* Variant: a handler that treats a request equal to an already committed
\* transaction as a replay: it answers 201 and commits nothing.
CommitDedup(c) ==
  /\ pc[c] = "commit"
  /\ LET replay ==
           \E t \in pendTx[c] : \E u \in transactions :
             [t EXCEPT !.id = u.id] = u
     IN /\ transactions' = IF replay THEN transactions
                           ELSE transactions \cup pendTx[c]
        /\ ledger_entries' = IF replay THEN ledger_entries
                             ELSE ledger_entries \cup pendEntries[c]
  /\ pendTx' = [pendTx EXCEPT ![c] = {}]
  /\ pendEntries' = [pendEntries EXCEPT ![c] = {}]
  /\ txn' = [txn EXCEPT ![c] = "committed"]
  /\ Respond(c, 201)
  /\ UNCHANGED <<accounts, nextTxId, nextEntryId>>
  /\ readRes' = NoRead

\* COMMIT completed: the transaction's rows become visible together; 201.
Commit(c) ==
  /\ pc[c] = "commit"
  /\ transactions' = transactions \cup pendTx[c]
  /\ ledger_entries' = ledger_entries \cup pendEntries[c]
  /\ pendTx' = [pendTx EXCEPT ![c] = {}]
  /\ pendEntries' = [pendEntries EXCEPT ![c] = {}]
  /\ txn' = [txn EXCEPT ![c] = "committed"]
  /\ Respond(c, 201)
  /\ UNCHANGED <<accounts, nextTxId, nextEntryId>>
  /\ readRes' = NoRead

\* Variant: the catch block answers 500 without sending ROLLBACK.
StoreErrorResponds(c, kind) ==
  /\ pc[c] \in AwaitingQuery
  /\ Respond(c, 500)
  /\ UNCHANGED <<store, nextTxId, nextEntryId, txn, pendTx, pendEntries>>
  /\ readRes' = NoRead

\* The awaited statement throws an error of the given kind: control passes to
\* `catch (err)`, which sends ROLLBACK whatever the kind.  Nothing the transaction wrote is committed; a COMMIT that throws
\* commits nothing.
StoreError(c, kind) ==
  /\ pc[c] \in AwaitingQuery
  /\ pc' = [pc EXCEPT ![c] = "catch"]
  /\ err' = [err EXCEPT ![c] = kind]
  /\ UNCHANGED <<store, nextTxId, nextEntryId, req, txn, pendTx, pendEntries,
                 transactionId, newBalance, res, released>>
  /\ readRes' = NoRead

\* Variant: a catch block that tells the kinds of error apart and answers a
\* store abort with 409.
CatchRollbackConflict(c) ==
  /\ pc[c] = "catch"
  /\ Rollback(c)
  /\ Respond(c, IF err[c] = "conflict" THEN 409 ELSE 500)
  /\ UNCHANGED <<accounts, nextTxId, nextEntryId>>
  /\ readRes' = NoRead

\* catch: ROLLBACK completed; 500.
CatchRollback(c) ==
  /\ pc[c] = "catch"
  /\ Rollback(c)
  /\ Respond(c, 500)
  /\ UNCHANGED <<accounts, nextTxId, nextEntryId>>
  /\ readRes' = NoRead

\* catch: ROLLBACK itself throws; the error is logged and 500 is sent all the
\* same.  The handler has given its store transaction no outcome (txn stays as
\* it was).  The connection that lost the ROLLBACK is broken: the store
\* discards what the transaction wrote when the connection closes.
CatchRollbackFails(c) ==
  /\ pc[c] = "catch"
  /\ pendTx' = [pendTx EXCEPT ![c] = {}]
  /\ pendEntries' = [pendEntries EXCEPT ![c] = {}]
  /\ Respond(c, 500)
  /\ UNCHANGED <<store, nextTxId, nextEntryId, txn>>
  /\ readRes' = NoRead

\* ------------------------------- GET /accounts/:id, /accounts/:id/ledger
\* Both handlers run their statements through pool.query, each statement in a
\* transaction of its own, so each sees committed rows only.  The account row
\* they look up first is never deleted, so the handler is one step, taken when
\* its second statement runs.
GetBalance(accountId) ==
  /\ readRes' =
       IF ~AccountExists(accountId)
         THEN [op |-> "GetBalance", accountId |-> accountId, status |-> 404]
         ELSE [op |-> "GetBalance", accountId |-> accountId, status |-> 200,
               balance |-> BalanceQuery(CommittedEntries, accountId)]
  /\ UNCHANGED <<store, nextTxId, nextEntryId, pc, req, txn, pendTx, pendEntries,
                 transactionId, newBalance, res, released>>
  /\ UNCHANGED err

\* entries: the rows SELECT ... FROM ledger_entries WHERE account_id = $1
\* returns (their ORDER BY created_at, id is not modelled: a set of rows).
ListLedger(accountId) ==
  /\ readRes' =
       IF ~AccountExists(accountId)
         THEN [op |-> "ListLedger", accountId |-> accountId, status |-> 404]
         ELSE [op |-> "ListLedger", accountId |-> accountId, status |-> 200,
               entries |-> {e \in CommittedEntries : e.account_id = accountId}]
  /\ UNCHANGED <<store, nextTxId, nextEntryId, pc, req, txn, pendTx, pendEntries,
                 transactionId, newBalance, res, released>>
  /\ UNCHANGED err

\* Bodies of POST /accounts; "" is a field that is missing or empty.
AccountBodies ==
  [userId : {"", "u1"}, type : {"", "savings"}, currency : {""} \cup Currencies]

\* Variant: the validation without its test of currency.
ValidAccountBodyNoCurrency(b) == b.userId # "" /\ b.type # ""

\* "1. Validate input" of POST /accounts: TRUE when no 400 is returned.
ValidAccountBody(b) == b.userId # "" /\ b.type # "" /\ b.currency # ""

\* POST /accounts: 400, or the INSERT (id from the SERIAL sequence, status by
\* its default 'active') and 201 with the created row.
PostAccounts(b) ==
  /\ IF ValidAccountBody(b)
       THEN /\ Cardinality(accounts) < Cardinality(AccountIds)
            /\ LET row == [id |-> Cardinality(accounts) + 1,
                           currency |-> b.currency, status |-> "active"]
               IN /\ accounts' = accounts \cup {row}
                  /\ readRes' = [op |-> "OpenAccount", body |-> b, status |-> 201,
                                 account |-> row]
       ELSE /\ readRes' = [op |-> "OpenAccount", body |-> b, status |-> 400]
            /\ UNCHANGED accounts
  /\ UNCHANGED <<transactions, ledger_entries, nextTxId, nextEntryId, pc, req, txn,
                 pendTx, pendEntries, transactionId, newBalance, res, released>>
  /\ UNCHANGED err

\* The INSERT of POST /accounts throws: catch answers 500, no row is created.
PostAccountsFails(b) ==
  /\ ValidAccountBody(b)
  /\ readRes' = [op |-> "OpenAccount", body |-> b, status |-> 500]
  /\ UNCHANGED <<store, nextTxId, nextEntryId, pc, req, txn, pendTx, pendEntries,
                 transactionId, newBalance, res, released>>
  /\ UNCHANGED err

\* GET with an :id that parseInt turns into NaN: 400 before any query.
ReadInvalid(op, rawId) ==
  /\ ParseInt(rawId) = NaN
  /\ readRes' = [op |-> op, accountId |-> NaN, status |-> 400]
  /\ UNCHANGED <<store, nextTxId, nextEntryId, pc, req, txn, pendTx, pendEntries,
                 transactionId, newBalance, res, released>>
  /\ UNCHANGED err

\* A pool.query of a GET handler throws: catch answers 500.
ReadFails(op, accountId) ==
  /\ readRes' = [op |-> op, accountId |-> accountId, status |-> 500]
  /\ UNCHANGED <<store, nextTxId, nextEntryId, pc, req, txn, pendTx, pendEntries,
                 transactionId, newBalance, res, released>>
  /\ UNCHANGED err

\* ------------------------------------------------------------- Next, Spec
\* Handlers that will still draw a transactions id.
BeforeInsertTx == {c \in Clients : pc[c] \in {"connect", "begin", "check", "insertTx"}}

\* The model accepts a request while the transactions id sequence, after the
\* requests in flight, has a value up to MaxTx left.
IdsLeft == nextTxId + Cardinality(BeforeInsertTx) <= MaxTx

Next ==
  \/ \E cur \in Currencies : OpenAccount(cur)
  \/ \E c \in Clients, r \in Requests : IdsLeft /\ Request(c, r)
  \/ \E c \in Clients : Validate(c)
  \/ \E c \in Clients : Begin(c)
  \/ \E c \in Clients : CheckAccounts(c)
  \/ \E c \in Clients : NotFound(c)
  \/ \E c \in Clients : InsertTx(c)
  \/ \E c \in Clients : InsertEntries(c)
  \/ \E c \in Clients : Balance(c)
  \/ \E c \in Clients : Insufficient(c)
  \/ \E c \in Clients : UpdateStatus(c)
  \/ \E c \in Clients : Commit(c)
  \/ \E c \in Clients : StoreError(c, "unavailable")
  \/ \E c \in Clients : CatchRollback(c)
  \/ \E c \in Clients : CatchRollbackFails(c)

Spec == Init /\ [][Next]_vars

\* The money-moving handlers together with the GET handlers.
NextRead ==
  \/ Next
  \/ \E a \in AccountIds : GetBalance(a)
  \/ \E a \in AccountIds : ListLedger(a)

SpecRead == Init /\ [][NextRead]_vars


\* ------------------------------------------- sequential, finer amounts
\* One handler at a time, with request amounts that have a third fractional
\* digit: 0.004, 0.01, 0.015 (mills).
SeqAmounts == {4, 10, 15}

SeqRequests ==
  [op : {"deposit"}, src : {NULL}, dst : AccountIds,
   amount : SeqAmounts, currency : Currencies]
  \cup
  [op : {"withdrawal"}, src : AccountIds, dst : {NULL},
   amount : SeqAmounts, currency : Currencies]
  \cup
  [op : {"transfer"}, src : AccountIds, dst : AccountIds,
   amount : SeqAmounts, currency : Currencies]

NextSeq ==
  \/ \E cur \in Currencies : OpenAccount(cur)
  \/ \E r \in SeqRequests : nextTxId <= MaxTx + 1 /\ Request(1, r)
  \/ Validate(1)
  \/ Begin(1)
  \/ CheckAccounts(1)
  \/ NotFound(1)
  \/ InsertTx(1)
  \/ InsertEntries(1)
  \/ Balance(1)
  \/ Insufficient(1)
  \/ UpdateStatus(1)
  \/ Commit(1)
  \/ StoreError(1, "unavailable")
  \/ CatchRollback(1)
  \/ CatchRollbackFails(1)

SpecSeq == Init /\ [][NextSeq]_vars

\* ------------------------------------------ sequential, bodies as received
\* One handler at a time, fed request bodies as they arrive, fields missing,
\* non-numeric or followed by other characters included: "", "1", "2", "1a",
\* "a" for account ids and "", "0.01", "-1", "0", "a", "0.01a" for amounts.
\* The account id "0" is not drawn.
RawIds == {<<>>, <<1>>, <<2>>, <<1, Letter>>, <<Letter>>}

RawAmounts ==
  {<<>>, <<0, Dot, 0, 1>>, <<Minus, 1>>, <<0>>, <<Letter>>,
   <<0, Dot, 0, 1, Letter>>}

RawCurrencies == {"", "INR"}

Bodies ==
  [op : {"deposit"}, src : {<<>>}, dst : RawIds,
   amount : RawAmounts, currency : RawCurrencies]
  \cup
  [op : {"withdrawal"}, src : RawIds, dst : {<<>>},
   amount : RawAmounts, currency : RawCurrencies]
  \cup
  [op : {"transfer"}, src : RawIds, dst : RawIds,
   amount : RawAmounts, currency : RawCurrencies]

NextInput ==
  \/ \E cur \in Currencies : OpenAccount(cur)
  \/ \E b \in Bodies : nextTxId <= MaxTx /\ Request(1, ParseBody(b))
  \/ Validate(1)
  \/ Begin(1)
  \/ CheckAccounts(1)
  \/ NotFound(1)
  \/ InsertTx(1)
  \/ InsertEntries(1)
  \/ Balance(1)
  \/ Insufficient(1)
  \/ UpdateStatus(1)
  \/ Commit(1)
  \/ StoreError(1, "unavailable")
  \/ CatchRollback(1)
  \/ CatchRollbackFails(1)

SpecInput == Init /\ [][NextInput]_vars

\* ------------------------------------------------ sequential, store faults
\* One handler at a time, with a pool that may fail to hand out a client and
\* statements that fail with either kind of error.
NextFault ==
  \/ \E cur \in Currencies : OpenAccount(cur)
  \/ \E r \in Requests : nextTxId <= MaxTx /\ Request(1, r)
  \/ ConnectFails(1)
  \/ Validate(1)
  \/ Begin(1)
  \/ CheckAccounts(1)
  \/ NotFound(1)
  \/ InsertTx(1)
  \/ InsertEntries(1)
  \/ Balance(1)
  \/ Insufficient(1)
  \/ UpdateStatus(1)
  \/ Commit(1)
  \/ \E k \in ErrorKinds : StoreError(1, k)
  \/ CatchRollback(1)
  \/ CatchRollbackFails(1)

SpecFault == Init /\ [][NextFault]_vars

\* The same, together with the GET handlers, their failures included.
ReadOps == {"GetBalance", "ListLedger"}

NextReadFault ==
  \/ NextFault
  \/ \E a \in AccountIds : GetBalance(a)
  \/ \E a \in AccountIds : ListLedger(a)
  \/ \E op \in ReadOps, id \in RawIds : ReadInvalid(op, id)
  \/ \E op \in ReadOps, a \in AccountIds : ReadFails(op, a)

SpecReadFault == Init /\ [][NextReadFault]_vars

\* ------------------------------------------------ sequential, POST /accounts
\* One money-moving handler at a time, with accounts opened through the whole
\* POST /accounts handler, its validation and its failure included.
NextAccounts ==
  \/ NextFault
  \/ \E b \in AccountBodies : PostAccounts(b)
  \/ \E b \in AccountBodies : PostAccountsFails(b)

SpecAccounts == Init /\ [][NextAccounts]_vars

\* ------------------------ two concurrent withdrawals of 60.00 from 100.00
\* The store after POST /accounts and a committed deposit of 100.00 into the
\* account; each of the two handlers then serves one Withdraw(1, 60.00).
Withdraw60 ==
  [op |-> "withdrawal", src |-> 1, dst |-> NULL, amount |-> 60000, currency |-> "INR"]

InitFunded ==
  /\ accounts = {[id |-> 1, currency |-> "INR", status |-> "active"]}
  /\ transactions =
       {[id |-> 1, type |-> "deposit", amount |-> 10000, currency |-> "INR",
         source_account_id |-> NULL, destination_account_id |-> 1,
         status |-> "completed"]}
  /\ ledger_entries =
       {[id |-> 1, transaction_id |-> 1, account_id |-> 1, entry_type |-> "credit",
         amount |-> 10000]}
  /\ nextTxId = 2
  /\ nextEntryId = 2
  /\ pc = [c \in Clients |-> "idle"]
  /\ req = [c \in Clients |-> NoReq]
  /\ txn = [c \in Clients |-> "none"]
  /\ pendTx = [c \in Clients |-> {}]
  /\ pendEntries = [c \in Clients |-> {}]
  /\ transactionId = [c \in Clients |-> 0]
  /\ newBalance = [c \in Clients |-> 0]
  /\ res = [c \in Clients |-> 0]
  /\ released = [c \in Clients |-> 0]
  /\ err = [c \in Clients |-> NoErr]
  /\ readRes = NoRead

NextFunded ==
  \/ \E c \in Clients : pc[c] = "idle" /\ Request(c, Withdraw60)
  \/ \E c \in Clients : Validate(c)
  \/ \E c \in Clients : Begin(c)
  \/ \E c \in Clients : CheckAccounts(c)
  \/ \E c \in Clients : InsertTx(c)
  \/ \E c \in Clients : InsertEntries(c)
  \/ \E c \in Clients : Balance(c)
  \/ \E c \in Clients : Insufficient(c)
  \/ \E c \in Clients : UpdateStatus(c)
  \/ \E c \in Clients : Commit(c)
  \/ \E c \in Clients : StoreError(c, "unavailable")
  \/ \E c \in Clients : CatchRollback(c)
  \/ \E c \in Clients : CatchRollbackFails(c)

SpecFunded == InitFunded /\ [][NextFunded]_vars

\* ------------------------------- two concurrent opposite-direction transfers
\* The store after two POST /accounts and a committed deposit of 0.01 into
\* account 1; handler 1 then serves Transfer(1 -> 2, 0.01) and handler 2
\* Transfer(2 -> 1, 0.01).
TransferOf(c) ==
  [op |-> "transfer", src |-> c, dst |-> 3 - c, amount |-> 10, currency |-> "INR"]

InitOpposite ==
  /\ accounts = {[id |-> a, currency |-> "INR", status |-> "active"] : a \in AccountIds}
  /\ transactions =
       {[id |-> 1, type |-> "deposit", amount |-> 1, currency |-> "INR",
         source_account_id |-> NULL, destination_account_id |-> 1,
         status |-> "completed"]}
  /\ ledger_entries =
       {[id |-> 1, transaction_id |-> 1, account_id |-> 1, entry_type |-> "credit",
         amount |-> 1]}
  /\ nextTxId = 2
  /\ nextEntryId = 2
  /\ pc = [c \in Clients |-> "idle"]
  /\ req = [c \in Clients |-> NoReq]
  /\ txn = [c \in Clients |-> "none"]
  /\ pendTx = [c \in Clients |-> {}]
  /\ pendEntries = [c \in Clients |-> {}]
  /\ transactionId = [c \in Clients |-> 0]
  /\ newBalance = [c \in Clients |-> 0]
  /\ res = [c \in Clients |-> 0]
  /\ released = [c \in Clients |-> 0]
  /\ err = [c \in Clients |-> NoErr]
  /\ readRes = NoRead

\* The steps of the two handlers in which the awaited statement is answered.
StepsOpposite ==
  \/ \E c \in Clients : pc[c] = "idle" /\ Request(c, TransferOf(c))
  \/ \E c \in Clients : Validate(c)
  \/ \E c \in Clients : Begin(c)
  \/ \E c \in Clients : CheckAccounts(c)
  \/ \E c \in Clients : InsertTx(c)
  \/ \E c \in Clients : InsertEntries(c)
  \/ \E c \in Clients : Balance(c)
  \/ \E c \in Clients : Insufficient(c)
  \/ \E c \in Clients : UpdateStatus(c)
  \/ \E c \in Clients : Commit(c)
  \/ \E c \in Clients : CatchRollback(c)
  \/ \E c \in Clients : CatchRollbackFails(c)

NextOpposite ==
  \/ StepsOpposite
  \/ \E c \in Clients : StoreError(c, "unavailable")

\* Fairness: the event loop runs a handler's continuation once the statement
\* it awaits has been answered, so a handler step that stays possible is
\* eventually taken.  A statement may fail, but none is bound to.
SpecOpposite == InitOpposite /\ [][NextOpposite]_vars /\ WF_vars(StepsOpposite)

\* --------------------------------------------- the deposit-transfer scenario
\* Two fresh accounts X = 1 and Y = 2.  One caller issues, one after the
\* other, Deposit(X, 100.00), Transfer(X -> Y, 100.00) and
\* Transfer(X -> Y, 0.01), repeating a request that was answered 500; the
\* GET handlers may be called between any two steps.  MaxAttempts bounds the
\* transactions ids drawn.
MaxAttempts == 5

AccountX == 1
AccountY == 2

ScenarioRequest(k) ==
  CASE k = 0 -> [op |-> "deposit", src |-> NULL, dst |-> AccountX,
                 amount |-> 100000, currency |-> "INR"]
    [] k = 1 -> [op |-> "transfer", src |-> AccountX, dst |-> AccountY,
                 amount |-> 100000, currency |-> "INR"]
    [] OTHER -> [op |-> "transfer", src |-> AccountX, dst |-> AccountY,
                 amount |-> 10, currency |-> "INR"]

InitScenario ==
  /\ accounts = {[id |-> a, currency |-> "INR", status |-> "active"] : a \in AccountIds}
  /\ transactions = {}
  /\ ledger_entries = {}
  /\ nextTxId = 1
  /\ nextEntryId = 1
  /\ pc = [c \in Clients |-> "idle"]
  /\ req = [c \in Clients |-> NoReq]
  /\ txn = [c \in Clients |-> "none"]
  /\ pendTx = [c \in Clients |-> {}]
  /\ pendEntries = [c \in Clients |-> {}]
  /\ transactionId = [c \in Clients |-> 0]
  /\ newBalance = [c \in Clients |-> 0]
  /\ res = [c \in Clients |-> 0]
  /\ released = [c \in Clients |-> 0]
  /\ err = [c \in Clients |-> NoErr]
  /\ readRes = NoRead

NextScenario ==
  \/ /\ nextTxId <= MaxAttempts
     /\ res[1] # 422
     /\ Request(1, ScenarioRequest(Cardinality(transactions)))
  \/ Validate(1)
  \/ Begin(1)
  \/ CheckAccounts(1)
  \/ InsertTx(1)
  \/ InsertEntries(1)
  \/ Balance(1)
  \/ Insufficient(1)
  \/ UpdateStatus(1)
  \/ Commit(1)
  \/ StoreError(1, "unavailable")
  \/ CatchRollback(1)
  \/ CatchRollbackFails(1)
  \/ \E a \in AccountIds : GetBalance(a)
  \/ \E a \in AccountIds : ListLedger(a)

SpecScenario == InitScenario /\ [][NextScenario]_vars

\* ------------------------------------- sequential, two currency codes
\* accounts.currency and transactions.currency are VARCHAR(10) columns filled
\* from the request bodies; the handlers read `currency` from req.body and
\* compare it with nothing.
TwoCurrencies == {"INR", "USD"}

CurrencyRequests ==
  [op : {"deposit"}, src : {NULL}, dst : AccountIds,
   amount : ReqAmounts, currency : TwoCurrencies]
  \cup
  [op : {"withdrawal"}, src : AccountIds, dst : {NULL},
   amount : ReqAmounts, currency : TwoCurrencies]
  \cup
  [op : {"transfer"}, src : AccountIds, dst : AccountIds,
   amount : ReqAmounts, currency : TwoCurrencies]

NextCurrency ==
  \/ \E cur \in TwoCurrencies : OpenAccount(cur)
  \/ \E r \in CurrencyRequests : nextTxId <= MaxTx /\ Request(1, r)
  \/ Validate(1)
  \/ Begin(1)
  \/ CheckAccounts(1)
  \/ NotFound(1)
  \/ InsertTx(1)
  \/ InsertEntries(1)
  \/ Balance(1)
  \/ Insufficient(1)
  \/ UpdateStatus(1)
  \/ Commit(1)
  \/ StoreError(1, "unavailable")
  \/ CatchRollback(1)
  \/ CatchRollbackFails(1)

SpecCurrency == Init /\ [][NextCurrency]_vars

\* ------------------------------------------- two handlers, three accounts
\* The store after three POST /accounts and committed deposits of 0.01 into
\* accounts 1 and 3; the two handlers then serve the transfers 1 -> 2, 2 -> 3
\* and 3 -> 1, deposits into account 2 and withdrawals from account 3,
\* drawing at most MaxTx more ids.
ThreeIds == {1, 2, 3}

ThreeRequests ==
  [op : {"deposit"}, src : {NULL}, dst : {2},
   amount : ReqAmounts, currency : Currencies]
  \cup
  [op : {"withdrawal"}, src : {3}, dst : {NULL},
   amount : ReqAmounts, currency : Currencies]
  \cup
  {[op |-> "transfer", src |-> a, dst |-> (a % 3) + 1, amount |-> m, currency |-> cur] :
     a \in ThreeIds, m \in ReqAmounts, cur \in Currencies}

InitThree ==
  /\ accounts = {[id |-> a, currency |-> "INR", status |-> "active"] : a \in ThreeIds}
  /\ transactions =
       {[id |-> 1, type |-> "deposit", amount |-> 1, currency |-> "INR",
         source_account_id |-> NULL, destination_account_id |-> 1,
         status |-> "completed"],
        [id |-> 2, type |-> "deposit", amount |-> 1, currency |-> "INR",
         source_account_id |-> NULL, destination_account_id |-> 3,
         status |-> "completed"]}
  /\ ledger_entries =
       {[id |-> 1, transaction_id |-> 1, account_id |-> 1, entry_type |-> "credit",
         amount |-> 1],
        [id |-> 2, transaction_id |-> 2, account_id |-> 3, entry_type |-> "credit",
         amount |-> 1]}
  /\ nextTxId = 3
  /\ nextEntryId = 3
  /\ pc = [c \in Clients |-> "idle"]
  /\ req = [c \in Clients |-> NoReq]
  /\ txn = [c \in Clients |-> "none"]
  /\ pendTx = [c \in Clients |-> {}]
  /\ pendEntries = [c \in Clients |-> {}]
  /\ transactionId = [c \in Clients |-> 0]
  /\ newBalance = [c \in Clients |-> 0]
  /\ res = [c \in Clients |-> 0]
  /\ released = [c \in Clients |-> 0]
  /\ err = [c \in Clients |-> NoErr]
  /\ readRes = NoRead

NextThree ==
  \/ \E c \in Clients, r \in ThreeRequests :
       /\ nextTxId + Cardinality(BeforeInsertTx) <= MaxTx + 2
       /\ Request(c, r)
  \/ \E c \in Clients : Validate(c)
  \/ \E c \in Clients : Begin(c)
  \/ \E c \in Clients : CheckAccounts(c)
  \/ \E c \in Clients : InsertTx(c)
  \/ \E c \in Clients : InsertEntries(c)
  \/ \E c \in Clients : Balance(c)
  \/ \E c \in Clients : Insufficient(c)
  \/ \E c \in Clients : UpdateStatus(c)
  \/ \E c \in Clients : Commit(c)
  \/ \E c \in Clients : StoreError(c, "unavailable")
  \/ \E c \in Clients : CatchRollback(c)
  \/ \E c \in Clients : CatchRollbackFails(c)

SpecThree == InitThree /\ [][NextThree]_vars


\* ====================================================== claims C1 .. C10

\* Handler c has appended a debit to account a in a store transaction that has
\* neither committed nor rolled back.
DebitInFlight(c, a) ==
  /\ txn[c] = "open"
  /\ \E e \in pendEntries[c] : e.entry_type = "debit" /\ e.account_id = a

\* C1: in every committed state every account's balance, the sum of its
\* committed credit entries minus the sum of its committed debit entries, is
\* greater than or equal to zero.
C1_NoNegativeBalance ==
  \A a \in AccountIds : BalanceQuery(ledger_entries, a) >= 0

\* C2: two concurrent Withdraw(A, 60.00) against an account A with balance
\* 100.00 end, whenever both end with a business outcome, in exactly one
\* success (201) and one InsufficientFunds (422); they never both succeed.
C2_ExactlyOneWithdrawalSucceeds ==
  (/\ \A c \in Clients : pc[c] = "done" /\ res[c] \in {201, 422})
    => \E c \in Clients :
         /\ res[c] = 201
         /\ \A d \in Clients \ {c} : res[d] = 422

\* C8: no two in-flight operations are at the same time between "debit
\* appended" and "commit/rollback" on the same debited account.
C8_DebitsSerialized ==
  \A c, d \in Clients :
    c # d => \A a \in AccountIds : ~(DebitInFlight(c, a) /\ DebitInFlight(d, a))


\* Handler c takes a step.
Steps(c) == pc'[c] # pc[c]

\* Handler c's step ends its operation with HTTP status `status`.
EndsWith(c, status) == pc[c] # "done" /\ pc'[c] = "done" /\ res'[c] = status

\* C3: each of Deposit, Withdraw and Transfer is atomic.  A step of a handler
\* changes the committed transactions and ledger entries only when it ends the
\* operation with success, and then the completed transaction row and all its
\* entries (two for a transfer, one otherwise) appear together; an operation
\* that ends with 400, 404, 422 or 500 leaves no row of its transaction.
C3_Atomic ==
  [][\A c \in Clients :
       Steps(c) =>
         IF EndsWith(c, 201)
           THEN LET tid == transactionId[c]
                    rows == {e \in ledger_entries' : e.transaction_id = tid}
                IN /\ tid # 0
                   /\ transactions' \ transactions =
                        {[TxRow(req[c], tid) EXCEPT !.status = "completed"]}
                   /\ ledger_entries' \ ledger_entries = rows
                   /\ transactions \subseteq transactions'
                   /\ ledger_entries \subseteq ledger_entries'
                   /\ Cardinality(rows) = IF req[c].op = "transfer" THEN 2 ELSE 1
           ELSE /\ transactions' = transactions
                /\ ledger_entries' = ledger_entries
                /\ pc'[c] = "done" =>
                     /\ pendTx'[c] = {} /\ pendEntries'[c] = {}
                     /\ \A t \in transactions' : t.id # transactionId[c]
                     /\ \A e \in ledger_entries' : e.transaction_id # transactionId[c]
    ]_vars

\* Witness of C3: one handler has ended with InsufficientFunds after writing
\* its rows, the other with success.
C3_Witness ==
  \E c, d \in Clients :
    /\ pc[c] = "done" /\ res[c] = 422 /\ txn[c] = "rolledback"
    /\ pc[d] = "done" /\ res[d] = 201 /\ txn[d] = "committed"

\* C5: every committed transfer has exactly two ledger entries with its
\* transaction id: one debit on its source and one credit on its destination,
\* both of the transfer's amount.
C5_TransferHasTwoLegs ==
  \A t \in transactions :
    t.type = "transfer" =>
      LET rows == {e \in ledger_entries : e.transaction_id = t.id} IN
        /\ Cardinality(rows) = 2
        /\ \E d, k \in rows :
             /\ d.entry_type = "debit" /\ d.account_id = t.source_account_id
             /\ k.entry_type = "credit" /\ k.account_id = t.destination_account_id
             /\ d.amount = k.amount /\ d.amount = t.amount

\* Witness of C5: a transfer is committed.
C5_Witness == \E t \in transactions : t.type = "transfer" /\ t.status = "completed"

\* The balance the debited account would have with the operation's debit: its
\* committed entries less the amount as stored.
WouldBe(c) == BalanceQuery(ledger_entries, req[c].src) - Numeric14_2(req[c].amount)

\* C6: a Withdraw or Transfer whose debit would drive the debited account's
\* recomputed balance below zero is sent to rollback, ends with 422
\* InsufficientFunds (500 if the store fails the ROLLBACK), never with success,
\* and none of its steps changes the committed transactions or entries.
C6_InsufficientFunds ==
  [][\A c \in Clients :
       /\ (pc[c] = "balance" /\ Steps(c) /\ pc'[c] # "catch" /\ WouldBe(c) < 0)
            => pc'[c] = "insufficient" /\ newBalance'[c] < 0
       /\ (pc[c] = "insufficient" /\ pc'[c] = "done") => res'[c] = 422
       /\ (newBalance[c] < 0 /\ Steps(c)) =>
            /\ pc'[c] \in {"insufficient", "catch", "done"}
            /\ pc'[c] = "done" => res'[c] \in {422, 500}
            /\ transactions' = transactions
            /\ ledger_entries' = ledger_entries
    ]_vars

\* Witness of C6: a handler has answered 422 while the store holds entries.
C6_Witness ==
  \E c \in Clients : pc[c] = "done" /\ res[c] = 422 /\ ledger_entries # {}

\* Rows of transactions, committed or written by an open store transaction.
AllTxRows == transactions \cup UNION {pendTx[c] : c \in Clients}

\* C10: a transaction's status moves only from pending to a terminal status
\* and never changes afterwards, and every committed transaction is completed.
C10_StatusMonotonic ==
  /\ [](\A t \in transactions : t.status = "completed")
  /\ [][/\ \A t \in AllTxRows : \A u \in AllTxRows' :
             u.id = t.id =>
               \/ u.status = t.status
               \/ t.status = "pending" /\ u.status \in {"completed", "failed"}
        /\ \A t \in transactions : t \in transactions'
       ]_vars

\* Witness of C10: a completed transaction is committed while another is
\* still pending in an open store transaction.
C10_Witness ==
  /\ \E t \in transactions : t.status = "completed"
  /\ \E c \in Clients : \E t \in pendTx[c] : t.status = "pending"

RECURSIVE SumAmounts(_)
SumAmounts(rows) ==
  IF rows = {} THEN 0
  ELSE LET e == CHOOSE x \in rows : TRUE IN e.amount + SumAmounts(rows \ {e})

Credits(a) ==
  SumAmounts({e \in ledger_entries : e.account_id = a /\ e.entry_type = "credit"})

Debits(a) ==
  SumAmounts({e \in ledger_entries : e.account_id = a /\ e.entry_type = "debit"})

\* C4: the balance GetBalance reports is the sum of the account's committed
\* credit amounts minus the sum of its committed debit amounts, 0 when it has
\* no entries, and no account row stores a balance.
C4_BalanceIsDerived ==
  /\ \A a \in accounts : DOMAIN a = {"id", "currency", "status"}
  /\ (readRes.op = "GetBalance" /\ readRes.status = 200) =>
       /\ readRes.balance = Credits(readRes.accountId) - Debits(readRes.accountId)
       /\ {e \in ledger_entries : e.account_id = readRes.accountId} = {}
            => readRes.balance = 0

\* Witness of C4: GetBalance answers for an account that has a committed credit
\* and, on another account, entries that must not count.
C4_Witness ==
  /\ readRes.op = "GetBalance" /\ readRes.status = 200
  /\ Credits(readRes.accountId) > 0
  /\ \E e \in ledger_entries : e.account_id # readRes.accountId /\ e.amount > 0

\* C9: GetBalance and ListLedger answer from committed entries only: no entry
\* an open store transaction has written is listed or summed, and every listed
\* entry belongs to a committed, completed transaction.
C9_ReadsCommittedOnly ==
  /\ (readRes.op = "ListLedger" /\ readRes.status = 200) =>
       /\ readRes.entries \subseteq ledger_entries
       /\ \A c \in Clients : readRes.entries \cap pendEntries[c] = {}
       /\ \A e \in readRes.entries :
            \E t \in transactions : t.id = e.transaction_id /\ t.status = "completed"
  /\ (readRes.op = "GetBalance" /\ readRes.status = 200) =>
       readRes.balance =
         SumSigned({e \in ledger_entries : e.account_id = readRes.accountId})

\* Witness of C9: ListLedger answers with a committed entry while an open store
\* transaction holds an uncommitted entry of the same account.
C9_Witness ==
  /\ readRes.op = "ListLedger" /\ readRes.status = 200
  /\ readRes.entries # {}
  /\ \E c \in Clients : \E e \in pendEntries[c] : e.account_id = readRes.accountId

\* C7: a successful Deposit of amount A into an account whose balance is B
\* leaves the balance at exactly B + A (both sides in mills).
C7_DepositAddsAmount ==
  [][\A c \in Clients :
       (EndsWith(c, 201) /\ req[c].op = "deposit") =>
         10 * BalanceQuery(ledger_entries', req[c].dst) =
           10 * BalanceQuery(ledger_entries, req[c].dst) + req[c].amount
    ]_vars

\* ===================================================== claims C11 .. C20

\* C11: ledger entries are append-only: every step keeps every committed
\* entry, with the same transaction id, account, kind and amount, so the set
\* of committed entries only grows.
C11_AppendOnly ==
  [][\A e \in ledger_entries :
       \E f \in ledger_entries' :
         /\ f.id = e.id
         /\ f.transaction_id = e.transaction_id
         /\ f.account_id = e.account_id
         /\ f.entry_type = e.entry_type
         /\ f.amount = e.amount]_vars

\* The entries of an earlier transaction are still there after a later commit,
\* in a run in which a handler has also rolled back.
C11_Witness ==
  /\ \E e, f \in ledger_entries : e.transaction_id < f.transaction_id
  /\ \E c \in Clients : txn[c] = "rolledback"

\* A decimal numeral: an optional sign, then digits with at most one ".".
IsNumeral(s) ==
  LET u == Unsigned(s)
  IN /\ \E i \in 1 .. Len(u) : IsDigit(u[i])
     /\ \A i \in 1 .. Len(u) : IsDigit(u[i]) \/ u[i] = Dot
     /\ Cardinality({i \in 1 .. Len(u) : u[i] = Dot}) <= 1

\* The account ids a body names, by operation.
IdFields(b) ==
  CASE b.op = "transfer" -> {b.src, b.dst}
    [] b.op = "deposit" -> {b.dst}
    [] OTHER -> {b.src}

\* A body with a missing field, a non-numeric or non-positive amount, a
\* non-numeric account id, or (Transfer) the same source and destination.
Malformed(b) ==
  \/ <<>> \in IdFields(b) \/ b.amount = <<>> \/ b.currency = ""
  \/ \E id \in IdFields(b) : \E i \in 1 .. Len(id) : ~IsDigit(id[i])
  \/ ~IsNumeral(b.amount)
  \/ ParseFloat(b.amount) <= 0
  \/ b.op = "transfer" /\ b.src = b.dst

\* C12: a Deposit, Withdraw or Transfer whose body has a missing field, a
\* non-positive or non-numeric amount, a non-numeric account id, or the same
\* source and destination is answered 400 by the validation step itself: no
\* BEGIN, no statement, and the store unchanged.
C12_InvalidInputRejected ==
  [][\A c \in Clients :
       (pc[c] = "connect" /\ Steps(c) /\ Malformed(req[c].raw))
         => /\ EndsWith(c, 400)
            /\ txn'[c] = "none"
            /\ pendTx'[c] = {} /\ pendEntries'[c] = {}
            /\ UNCHANGED store]_vars

\* The accounts a request refers to, by operation.
Referenced(r) ==
  CASE r.op = "transfer" -> {r.src, r.dst}
    [] r.op = "deposit" -> {r.dst}
    [] OTHER -> {r.src}

\* C13: a valid Transfer gets AccountNotFound (404) if and only if at least
\* one of its two accounts does not exist, a valid Deposit or Withdraw if and
\* only if its account does not exist; the store transaction is then rolled
\* back and no row has been written.  (A statement that throws ends in 500.)
C13_AccountNotFound ==
  [][\A c \in Clients :
       /\ (pc[c] = "check" /\ Steps(c) /\ pc'[c] # "catch")
            => (pc'[c] = "notfound"
                  <=> \E id \in Referenced(req[c]) : ~AccountExists(id))
       /\ (pc[c] = "notfound" /\ Steps(c) /\ pc'[c] # "catch")
            => /\ EndsWith(c, 404)
               /\ txn'[c] = "rolledback"
               /\ pendTx[c] = {} /\ pendEntries[c] = {}
               /\ UNCHANGED <<store, nextTxId, nextEntryId>>
       /\ EndsWith(c, 404) => pc[c] = "notfound"]_vars

\* The existence check of a transfer has found its source but not its
\* destination.
C13_Witness ==
  \E c \in Clients :
    /\ pc[c] = "notfound"
    /\ req[c].op = "transfer"
    /\ AccountExists(req[c].src)
    /\ ~AccountExists(req[c].dst)

\* Handler c has sent ROLLBACK and awaits its completion.
RollbackSent(c) == pc[c] \in {"notfound", "insufficient", "catch"}

\* C14: when a statement fails after the handler has acquired its client
\* (BEGIN, existence check, an insert, the balance query, the update, COMMIT),
\* no response is sent by the failing step; the error response (500) is sent
\* only by the step that follows the ROLLBACK the catch block issues, and
\* every error response of an open transaction follows a ROLLBACK.
C14_RollbackBeforeError ==
  [][\A c \in Clients :
       /\ (Steps(c) /\ pc'[c] = "catch")
            => /\ pc[c] \in AwaitingQuery
               /\ res'[c] = 0
               /\ released'[c] = 0
       /\ EndsWith(c, 500) => pc[c] = "catch"
       /\ (txn[c] = "open" /\ Steps(c) /\ pc'[c] = "done" /\ res'[c] # 201)
            => RollbackSent(c)]_vars

\* A statement failed after the transaction had written its rows, and the
\* handler has answered 500 with the transaction rolled back.
C14_Witness ==
  \E c \in Clients :
    /\ pc[c] = "done"
    /\ res[c] = 500
    /\ txn[c] = "rolledback"
    /\ nextEntryId > 1

\* C15: when a handler has returned, its client has been released exactly
\* once and the store transaction it began, if any, has committed or rolled
\* back: no client goes back to the pool with its transaction still open.
C15_ReleasedWithDefiniteOutcome ==
  \A c \in Clients :
    pc[c] = "done"
      => /\ released[c] = 1
         /\ txn[c] \in {"none", "committed", "rolledback"}

\* C16: every request returns exactly one typed result: a handler that has
\* returned has sent one of 201, 400, 404, 422, 500, also when acquiring the
\* client failed before the try block.
C16_OneTypedResult ==
  \A c \in Clients :
    pc[c] = "done" => res[c] \in {201, 400, 404, 422, 500}

C18_OppositeTransfersEnd ==
  <>(\A c \in Clients : pc[c] = "done" /\ res[c] \in {201, 422, 500})

\* Both transfers are in flight at their balance queries, each with
\* uncommitted entries on both accounts.
C18_Witness ==
  \A c \in Clients :
    /\ pc[c] = "balance"
    /\ {e.account_id : e \in pendEntries[c]} = AccountIds

\* What a committed transaction row t adds to the balance of account a.
Effect(t, a) ==
  (IF t.destination_account_id = a THEN t.amount ELSE 0)
    - (IF t.source_account_id = a THEN t.amount ELSE 0)

\* C19: no operation is idempotent: every success (201), also of a request
\* equal to one that succeeded before, commits one more transaction under an
\* id no committed transaction has, with entries of its own, and applies its
\* balance effect once more.
C19_NotIdempotent ==
  [][\A c \in Clients :
       EndsWith(c, 201)
         => \E t \in transactions' :
              /\ \A u \in transactions : u.id # t.id
              /\ transactions' = transactions \cup {t}
              /\ ledger_entries' # ledger_entries
              /\ \A e \in ledger_entries' \ ledger_entries :
                   /\ e.transaction_id = t.id
                   /\ \A f \in ledger_entries : f.id # e.id
              /\ \A a \in AccountIds :
                   BalanceQuery(ledger_entries', a)
                     = BalanceQuery(ledger_entries, a) + Effect(t, a)]_vars

\* The same deposit has succeeded twice: two committed transactions that
\* differ in their ids only, and the account holds twice the amount.
C19_Witness ==
  \E t, u \in transactions :
    /\ t.id # u.id
    /\ [t EXCEPT !.id = u.id] = u
    /\ t.type = "deposit"
    /\ BalanceQuery(ledger_entries, t.destination_account_id) = 2 * t.amount

\* C20: every committed transaction has the source / destination shape of its
\* kind, and every account it refers to exists: a deposit has a destination
\* and no source, a withdrawal a source and no destination, a transfer both,
\* and they differ.
C20_TransactionShape ==
  \A t \in transactions :
    CASE t.type = "deposit" ->
           /\ t.source_account_id = NULL
           /\ t.destination_account_id # NULL
           /\ AccountExists(t.destination_account_id)
      [] t.type = "withdrawal" ->
           /\ t.source_account_id # NULL
           /\ t.destination_account_id = NULL
           /\ AccountExists(t.source_account_id)
      [] t.type = "transfer" ->
           /\ t.source_account_id # NULL
           /\ t.destination_account_id # NULL
           /\ t.source_account_id # t.destination_account_id
           /\ AccountExists(t.source_account_id)
           /\ AccountExists(t.destination_account_id)
      [] OTHER -> FALSE

\* A deposit and a transfer have both committed.
C20_Witness ==
  /\ \E t \in transactions : t.type = "deposit"
  /\ \E t \in transactions : t.type = "transfer"

\* ===================================================== claims C21 .. C30

\* The committed ledger entries of transaction t.
EntriesOf(t) == {e \in ledger_entries : e.transaction_id = t.id}

\* C21: every committed deposit has exactly one ledger entry, a credit on its
\* destination account, and every committed withdrawal exactly one, a debit
\* on its source account, each of the transaction's amount; and every
\* committed ledger entry belongs to a committed transaction.
C21_SingleLegEntries ==
  /\ \A t \in transactions :
       /\ t.type = "deposit" =>
            /\ Cardinality(EntriesOf(t)) = 1
            /\ \A e \in EntriesOf(t) :
                 /\ e.entry_type = "credit"
                 /\ e.account_id = t.destination_account_id
                 /\ e.amount = t.amount
       /\ t.type = "withdrawal" =>
            /\ Cardinality(EntriesOf(t)) = 1
            /\ \A e \in EntriesOf(t) :
                 /\ e.entry_type = "debit"
                 /\ e.account_id = t.source_account_id
                 /\ e.amount = t.amount
  /\ \A e \in ledger_entries : \E t \in transactions : t.id = e.transaction_id

\* A deposit and a withdrawal have both committed.
C21_Witness ==
  /\ \E t \in transactions : t.type = "deposit"
  /\ \E t \in transactions : t.type = "withdrawal"

\* C22: GetBalance and ListLedger answer 404 exactly when no account has the
\* id (their other answers being 200, 400 for an id that is not a number and
\* 500 when a query throws), and whatever they answer they leave accounts,
\* transactions and ledger entries unchanged.
C22_ReadsArePure ==
  [][readRes' # NoRead
       => /\ UNCHANGED <<store, nextTxId, nextEntryId>>
          /\ readRes'.status \in {200, 400, 404, 500}
          /\ readRes'.status \in {200, 404}
               => (readRes'.status = 404
                     <=> ~ \E a \in accounts : a.id = readRes'.accountId)]_vars

\* A GET on a missing account has answered 404 while another account exists
\* and holds committed entries.
C22_Witness ==
  /\ readRes # NoRead
  /\ readRes.status = 404
  /\ accounts # {}
  /\ ledger_entries # {}

\* C23: OpenAccount answers 400 and creates nothing if userId, type or
\* currency is empty; otherwise (unless the INSERT throws: 500, nothing
\* created) it creates exactly one account, with an id no account has, status
\* active and balance 0; in every case the existing accounts, the transactions
\* and the ledger entries stay as they are.
C23_OpenAccount ==
  [][(readRes' # NoRead /\ readRes'.op = "OpenAccount")
       => LET b == readRes'.body
              empty == b.userId = "" \/ b.type = "" \/ b.currency = ""
          IN /\ UNCHANGED <<transactions, ledger_entries>>
             /\ accounts \subseteq accounts'
             /\ readRes'.status \in {201, 400, 500}
             /\ empty <=> readRes'.status = 400
             /\ readRes'.status # 201 => accounts' = accounts
             /\ readRes'.status = 201
                  => \E a \in accounts' :
                       /\ accounts' = accounts \cup {a}
                       /\ \A x \in accounts : x.id # a.id
                       /\ a = readRes'.account
                       /\ a.status = "active"
                       /\ a.currency = b.currency
                       /\ BalanceQuery(ledger_entries', a.id) = 0]_vars

\* A second account has been opened while the first holds committed entries.
C23_Witness ==
  /\ readRes # NoRead
  /\ readRes.op = "OpenAccount"
  /\ readRes.status = 201
  /\ Cardinality(accounts) = 2
  /\ ledger_entries # {}

\* C24: with no other operation in flight, a valid Withdraw of A from an
\* account with balance B that ends in 201 or 422 ends in 201 if and only if
\* B - A >= 0, and then leaves the balance B - A; likewise a Transfer for its
\* source, whose destination gains A.  (B is in cents, A in mills.)
C24_SucceedsIffCovered ==
  [][\A c \in Clients :
       (/\ req[c].op \in {"withdrawal", "transfer"}
        /\ Steps(c) /\ pc'[c] = "done" /\ res'[c] \in {201, 422})
         => LET B == BalanceQuery(ledger_entries, req[c].src)
                A == req[c].amount
            IN /\ res'[c] = 201 <=> 10 * B - A >= 0
               /\ res'[c] = 201
                    => /\ 10 * BalanceQuery(ledger_entries', req[c].src) = 10 * B - A
                       /\ req[c].op = "transfer"
                            => 10 * BalanceQuery(ledger_entries', req[c].dst)
                                 = 10 * BalanceQuery(ledger_entries, req[c].dst) + A]_vars

\* C25: run one after the other from two fresh accounts X and Y:
\* Deposit(X, 100.00) succeeds and gives X 100.00; Transfer(X -> Y, 100.00)
\* then succeeds and gives X 0.00 and Y 100.00; Transfer(X -> Y, 0.01) then
\* never succeeds: it is answered 422, X stays at 0.00 and Y at 100.00, and
\* ListLedger(X) still returns exactly 2 entries, the deposit's credit and the
\* transfer's debit.  (A request whose statement throws is answered 500.)
C25_Scenario ==
  LET n == Cardinality(transactions)
      balX == BalanceQuery(ledger_entries, AccountX)
      balY == BalanceQuery(ledger_entries, AccountY)
      answered == pc[1] = "done"
  IN /\ n <= 2
     /\ n = 0 => (balX = 0 /\ balY = 0 /\ (answered => res[1] = 500))
     /\ n = 1 => (balX = 10000 /\ balY = 0 /\ (answered => res[1] \in {201, 500}))
     /\ n = 2 => /\ balX = 0 /\ balY = 10000
                 /\ answered => res[1] \in {201, 422, 500}
                 /\ (readRes # NoRead /\ readRes.op = "ListLedger"
                       /\ readRes.accountId = AccountX)
                      => /\ Cardinality(readRes.entries) = 2
                         /\ \E e \in readRes.entries :
                              /\ e.entry_type = "credit" /\ e.amount = 10000
                              /\ \E t \in transactions :
                                   t.id = e.transaction_id /\ t.type = "deposit"
                         /\ \E e \in readRes.entries :
                              /\ e.entry_type = "debit" /\ e.amount = 10000
                              /\ \E t \in transactions :
                                   t.id = e.transaction_id /\ t.type = "transfer"
     /\ (readRes # NoRead /\ readRes.op = "GetBalance" /\ readRes.status = 200)
          => readRes.balance = (IF readRes.accountId = AccountX THEN balX ELSE balY)

\* The third request has been answered 422 and ListLedger(X) has been called
\* after it.
C25_Witness ==
  /\ pc[1] = "done"
  /\ res[1] = 422
  /\ Cardinality(transactions) = 2
  /\ readRes # NoRead
  /\ readRes.op = "ListLedger"
  /\ readRes.accountId = AccountX

\* The number of ledger entries an operation appends.
Legs(op) == IF op = "transfer" THEN 2 ELSE 1

\* C26: within every Deposit, Withdraw and Transfer the transaction row is
\* first written with status pending, then all its ledger entries, then (for
\* Withdraw and Transfer) the debited account's balance is recomputed with
\* those entries and found non-negative, only then the status is set to
\* completed, and only a completed row is committed.
C26_StepOrder ==
  [][\A c \in Clients :
       /\ pendTx'[c] \ pendTx[c] # {} /\ pendTx[c] = {}
            => /\ \A t \in pendTx'[c] : t.status = "pending"
               /\ pendEntries[c] = {}
       /\ pendEntries'[c] \ pendEntries[c] # {}
            => /\ pendTx[c] # {}
               /\ \A t \in pendTx[c] : t.status = "pending"
               /\ Cardinality(pendEntries'[c]) = Legs(req[c].op)
       /\ (Steps(c) /\ pc'[c] = "update" /\ req[c].op # "deposit")
            => /\ Cardinality(pendEntries[c]) = Legs(req[c].op)
               /\ newBalance'[c]
                    = BalanceQuery(ledger_entries \cup pendEntries[c], req[c].src)
               /\ newBalance'[c] >= 0
               /\ \A t \in pendTx[c] : t.status = "pending"
       /\ (\E t \in pendTx'[c] : t.status = "completed" /\ t \notin pendTx[c])
            => /\ pc[c] = "update"
               /\ Cardinality(pendEntries[c]) = Legs(req[c].op)
               /\ req[c].op # "deposit" => newBalance[c] >= 0
       /\ (Steps(c) /\ transactions' # transactions)
            => /\ pc[c] = "commit"
               /\ \A t \in transactions' \ transactions : t.status = "completed"]_vars

\* A transfer has its row completed, after both entries and a balance check
\* that found 0, and awaits COMMIT.
C26_Witness ==
  \E c \in Clients :
    /\ pc[c] = "commit"
    /\ req[c].op = "transfer"
    /\ Cardinality(pendEntries[c]) = 2
    /\ \A t \in pendTx[c] : t.status = "completed"
    /\ ledger_entries # {}

\* Transaction id is in the committed store with status completed and all the
\* ledger entries of its kind.
CommittedWhole(id) ==
  \E t \in transactions :
    /\ t.id = id
    /\ t.status = "completed"
    /\ Cardinality({e \in ledger_entries : e.transaction_id = id}) = Legs(t.type)

\* C27: a handler answers 201 with a transactionId only after COMMIT: the
\* transaction the caller was told of is in the committed store with status
\* completed and all its entries, and no later step takes a committed
\* transaction or entry away or changes it.
C27_SuccessAfterCommit ==
  /\ [](\A c \in Clients :
          (pc[c] = "done" /\ res[c] = 201) => CommittedWhole(transactionId[c]))
  /\ [][/\ transactions \subseteq transactions'
        /\ ledger_entries \subseteq ledger_entries'
        /\ \A c \in Clients :
             EndsWith(c, 201)
               => /\ txn'[c] = "committed"
                  /\ CommittedWhole(transactionId[c])']_vars

\* One caller holds a success for a transfer while the other handler has
\* since committed a second transaction.
C27_Witness ==
  \E c \in Clients :
    /\ pc[c] = "done"
    /\ res[c] = 201
    /\ \E t \in transactions : t.id = transactionId[c] /\ t.type = "transfer"
    /\ \E u \in transactions : u.id > transactionId[c]

\* C28: every committed transaction and ledger entry has a strictly positive
\* amount (amounts are held in cents, so with exactly two fractional digits),
\* whatever request amount passed validation, those the NUMERIC(14,2) columns
\* round on insert included.
C28_PositiveAmounts ==
  /\ \A t \in transactions : t.amount > 0
  /\ \A e \in ledger_entries : e.amount > 0

RECURSIVE SumBalances(_, _)
SumBalances(rows, ids) ==
  IF ids = {} THEN 0
  ELSE LET a == CHOOSE x \in ids : TRUE
       IN BalanceQuery(rows, a) + SumBalances(rows, ids \ {a})

\* The total amount of the committed transactions of a kind.
TotalOf(kind) == SumAmounts({t \in transactions : t.type = kind})

\* C29: money is conserved: in every committed state the balances of all
\* accounts sum to the committed deposits minus the committed withdrawals;
\* and a transfer that commits takes its amount from the source, adds it to
\* the destination, and leaves the sum over all accounts and the balance of
\* every other account as they were.
C29_MoneyConserved ==
  /\ [](SumBalances(ledger_entries, ThreeIds)
          = TotalOf("deposit") - TotalOf("withdrawal"))
  /\ [][\A c \in Clients :
          (EndsWith(c, 201) /\ req[c].op = "transfer")
            => \E t \in transactions' \ transactions :
                 /\ t.type = "transfer"
                 /\ BalanceQuery(ledger_entries', req[c].src)
                      = BalanceQuery(ledger_entries, req[c].src) - t.amount
                 /\ BalanceQuery(ledger_entries', req[c].dst)
                      = BalanceQuery(ledger_entries, req[c].dst) + t.amount
                 /\ \A a \in ThreeIds \ {req[c].src, req[c].dst} :
                      BalanceQuery(ledger_entries', a) = BalanceQuery(ledger_entries, a)
                 /\ SumBalances(ledger_entries', ThreeIds)
                      = SumBalances(ledger_entries, ThreeIds)]_vars

\* A transfer from account 1 to account 2 has committed while account 3
\* holds its deposit.
C29_Witness ==
  /\ \E t \in transactions :
       t.type = "transfer" /\ t.source_account_id = 1 /\ t.destination_account_id = 2
  /\ BalanceQuery(ledger_entries, 3) = 1
  /\ BalanceQuery(ledger_entries, 2) = 1

\* C30: the currency of every committed transaction equals the currency of
\* every account it references (its source and/or its destination), so all
\* the entries summed into one account's balance are in that account's
\* currency.
C30_CurrencyMatches ==
  \A t \in transactions : \A a \in accounts :
    a.id \in {t.source_account_id, t.destination_account_id}
      => t.currency = a.currency

====
